---- MODULE Spec2Model ----
(***************************************************************************)
(* A model of the AI completion gateway of one-reference-architecture:     *)
(*   rust-lib/src/ai.rs        chat_completions_handler, calculate_tokens  *)
(*   rust-lib/src/rag.rs       RagService                                  *)
(*   rust-lib/src/mcp.rs       McpRegistry and the default servers         *)
(*   src-tauri/src/ai_proxy.rs AIProxyServer (start / health check / stop) *)
(*                                                                         *)
(* Rust strings are TLA+ strings; String::len counts bytes, and every      *)
(* string of the model is ASCII, so Len is the byte length.  Option<T> is  *)
(* a sequence of length 0 (None) or 1 (Some(v)); Vec<T> is a sequence; a   *)
(* HashMap is a function whose DOMAIN is the set of its keys.              *)
(***************************************************************************)
EXTENDS Integers, Sequences, FiniteSets, TLC

VARIABLES
    \* the gateway answering chat-completion requests
    registry,       \* GLOBAL_MCP_REGISTRY: [servers, tools]             (mcp.rs)
    request,        \* the request being answered, None when idle         (ai.rs)
    messages,       \* request.messages as the handler leaves them        (ai.rs)
    available,      \* available_tools as the handler resolves them       (ai.rs)
    response,       \* the handler's return value, None when idle         (ai.rs)
    rag_calls,      \* calls of retrieve_context made for this request    (rag.rs)
    rag_result,     \* what retrieve_context returned to this request, or None
    exec_result,    \* the latest execute_tool_call and its result, or None (mcp.rs)
    \* a call of RagService::enhance_messages_with_context
    enh_messages,   \* `messages` as passed in
    enh_context,    \* `context`, None when there is no call
    enh_result,     \* `messages` when the call has returned, else None
    \* a call of RagService::retrieve_context
    ret_query,      \* `query` as passed in
    ret_user_id,    \* `user_id` as passed in
    ret_result,     \* the call's return value, None until it has returned
    \* the AIProxyServer and the serving task it spawns           (ai_proxy.rs)
    port,           \* AIProxyServer.port
    is_running,     \* AIProxyServer.is_running
    server_handle,  \* AIProxyServer.server_handle: None or Some(task)
    task,           \* the serving task: "none", "serving" or "aborted"
    pc,             \* where start() stands between its awaits
    attempt,        \* the loop variable of verify_server_health
    health_log,     \* the outcomes of the liveness requests of the latest
                    \* verify_server_health
    start_result,   \* what the last start() returned, None while it runs
    exhausted,      \* history: a start() of this server has returned the
                    \* health-check error
    stop_since,     \* history: stop() has run since start() was last called
    \* the host program around the AIProxyServer                      (lib.rs)
    ai_server_state, \* Arc<RwLock<Option<AIProxyServer>>>: None or Some
    query_result,   \* what the latest tauri command returned, None before
    \* requests answered in parallel by the runtime's worker threads  (ai.rs)
    handlers,       \* where each running chat_completions_handler stands
    constructed,    \* how often each singleton's Once has run its closure
    default_inits,  \* completed runs of initialize_default_mcp_servers
    listings,       \* what get_available_tools returned to each handler
    overlap         \* history: a registry access ran while another handler's
                    \* register_server was partly applied

requestVars == <<request, messages, available, response, rag_calls, rag_result>>
gatewayVars == <<registry, requestVars, exec_result>>
retrieveVars == <<ret_query, ret_user_id, ret_result>>
ragVars == <<enh_messages, enh_context, enh_result, retrieveVars>>
proxyVars == <<port, is_running, server_handle, task, pc, attempt, health_log, start_result,
               exhausted, stop_since>>
hostVars == <<ai_server_state, query_result>>
raceVars == <<handlers, constructed, default_inits, listings, overlap>>
vars == <<gatewayVars, ragVars, proxyVars, hostVars, raceVars>>

-----------------------------------------------------------------------------
(* Option<T> and Result<T, E>                                              *)

None == <<>>
Some(v) == <<v>>
is_some(o) == o /= <<>>
is_none(o) == o = <<>>
unwrap(o) == o[1]

Ok(v) == [ok |-> TRUE, value |-> v]
Err(e) == [ok |-> FALSE, value |-> e]

-----------------------------------------------------------------------------
(* Strings and integers                                                    *)

\* Token counts are u32 in the source.  A request body is bounded far below
\* the 2^34 bytes of content it takes to wrap one, so the model's u32 are
\* plain naturals.

\* str::contains(pat): pat occurs in s as a contiguous substring.
contains(s, pat) ==
    \E i \in 1..(Len(s) - Len(pat) + 1) : SubSeq(s, i, i + Len(pat) - 1) = pat

\* serde_json's rendering of a string: quoted, with " and \ escaped.
RECURSIVE json_escape(_)
json_escape(s) ==
    IF s = "" THEN ""
    ELSE LET c == SubSeq(s, 1, 1)
             e == IF c = "\"" THEN "\\\"" ELSE IF c = "\\" THEN "\\\\" ELSE c
         IN  e \o json_escape(SubSeq(s, 2, Len(s)))

json_string(s) == "\"" \o json_escape(s) \o "\""

\* Iterator::sum over a sequence of u32.
RECURSIVE sum_u32(_)
sum_u32(xs) ==
    IF xs = <<>> THEN 0 ELSE xs[1] + sum_u32(Tail(xs))

\* An enumeration of a finite set (HashMap::values: unspecified order).
RECURSIVE values(_)
values(S) ==
    IF S = {} THEN <<>>
    ELSE LET x == CHOOSE y \in S : TRUE IN <<x>> \o values(S \ {x})

-----------------------------------------------------------------------------
(* mcp.rs: the MCP server registry                                         *)

\* HashMap::insert and HashMap::remove.
insert(map, k, v) == [x \in DOMAIN map \cup {k} |-> IF x = k THEN v ELSE map[x]]
remove(map, k) == [x \in DOMAIN map \ {k} |-> map[x]]
EmptyMap == [x \in {} |-> x]

McpTool(name, description, server) ==
    [name |-> name, description |-> description, server |-> server]

McpServer(name, description, tools) ==
    [name |-> name, description |-> description, version |-> "1.0.0",
     tools |-> tools, status |-> "Active"]

\* McpRegistry::new
McpRegistry_new == [servers |-> EmptyMap, tools |-> EmptyMap]

\* The loop of register_server: every tool of the server goes into the flat
\* index under its name, in order, replacing whatever was indexed there.
RECURSIVE insert_tools(_, _)
insert_tools(index, ts) ==
    IF ts = <<>> THEN index
    ELSE insert_tools(insert(index, ts[1].name, ts[1]), Tail(ts))

\* Mutant: a name that is already indexed keeps its entry.
register_server_first_wins(reg, server) ==
    LET added == insert_tools(EmptyMap, server.tools)
    IN  [servers |-> insert(reg.servers, server.name, server),
         tools |-> [t \in DOMAIN reg.tools \cup DOMAIN added |->
                       IF t \in DOMAIN reg.tools THEN reg.tools[t] ELSE added[t]]]

\* McpRegistry::register_server
register_server(reg, server) ==
    [servers |-> insert(reg.servers, server.name, server),
     tools |-> insert_tools(reg.tools, server.tools)]

\* The loop of unregister_server: every tool name the removed server carries
\* leaves the flat index, whichever server's tool is indexed under it.
RECURSIVE remove_tools(_, _)
remove_tools(index, ts) ==
    IF ts = <<>> THEN index
    ELSE remove_tools(remove(index, ts[1].name), Tail(ts))

\* Mutant: the server goes, its tools stay indexed.
unregister_server_keeping_tools(reg, server_name) ==
    IF server_name \in DOMAIN reg.servers
    THEN [servers |-> remove(reg.servers, server_name), tools |-> reg.tools]
    ELSE reg

\* McpRegistry::unregister_server
unregister_server(reg, server_name) ==
    IF server_name \in DOMAIN reg.servers
    THEN [servers |-> remove(reg.servers, server_name),
          tools |-> remove_tools(reg.tools, reg.servers[server_name].tools)]
    ELSE reg

\* The OpenAI-shaped Tool built from an McpTool.
Tool(name, description) ==
    [type |-> "function", function |-> [name |-> name, description |-> description]]

\* McpRegistry::get_available_tools: one Tool per indexed tool.
get_available_tools(reg) ==
    LET listed == values({reg.tools[n] : n \in DOMAIN reg.tools})
    IN  [i \in 1..Len(listed) |-> Tool(listed[i].name, listed[i].description)]

\* Mutant: the tool is looked for in the tool lists of the registered
\* servers instead of the flat index.
execute_tool_call_via_servers(reg, tool_call) ==
    LET tool_name == tool_call.function.name
        owners == {n \in DOMAIN reg.servers :
                     \E i \in 1..Len(reg.servers[n].tools) :
                        reg.servers[n].tools[i].name = tool_name}
    IN  [registry |-> reg,
         result |-> IF owners /= {}
                    THEN Ok("Tool '" \o tool_name \o "' executed with arguments: "
                            \o tool_call.function.arguments
                            \o ". (Mock result from MCP server '"
                            \o (CHOOSE n \in owners : TRUE) \o "')")
                    ELSE Err("Tool '" \o tool_name \o "' not found in MCP registry")]

\* McpRegistry::execute_tool_call: the registry as it leaves it (it takes
\* `&self`) and what it returns.
execute_tool_call(reg, tool_call) ==
    LET tool_name == tool_call.function.name
    IN  [registry |-> reg,
         result |-> IF tool_name \in DOMAIN reg.tools
                    THEN Ok("Tool '" \o tool_name \o "' executed with arguments: "
                            \o tool_call.function.arguments
                            \o ". (Mock result from MCP server '"
                            \o reg.tools[tool_name].server \o "')")
                    ELSE Err("Tool '" \o tool_name \o "' not found in MCP registry")]

\* The two servers initialize_default_mcp_servers builds.
fs_server ==
    McpServer("filesystem", "File system operations",
              <<McpTool("read_file", "Read contents of a file", "filesystem"),
                McpTool("write_file", "Write content to a file", "filesystem")>>)

web_server ==
    McpServer("web_search", "Web search capabilities",
              <<McpTool("search_web", "Search the web for information", "web_search")>>)

\* initialize_default_mcp_servers
initialize_default_mcp_servers(reg) ==
    register_server(register_server(reg, fs_server), web_server)

-----------------------------------------------------------------------------
(* ai.rs: the message and tool-call types                                  *)

ChatMessage(role, content, tool_calls, tool_call_id, name) ==
    [role |-> role, content |-> content, tool_calls |-> tool_calls,
     tool_call_id |-> tool_call_id, name |-> name]

FunctionCall(name, arguments) == [name |-> name, arguments |-> arguments]

ToolCall(id, function) == [id |-> id, type |-> "function", function |-> function]

-----------------------------------------------------------------------------
(* rag.rs: the retrieval service                                           *)

\* Relevance scores are f32 in the source; the model keeps them in hundredths
\* (0.85 is 85), which is what `{:.2}` prints of them.
Document(id, title, content) == [id |-> id, title |-> title, content |-> content]

\* RagConfig::default
RagConfig_default ==
    [max_documents |-> 5, relevance_threshold |-> 70, max_context_tokens |-> 4000,
     embedding_model |-> "text-embedding-ada-002"]

\* The `.map(|doc| doc.content.len() / 4).sum()` of retrieve_context (usize).
RECURSIVE content_tokens(_)
content_tokens(docs) ==
    IF docs = <<>> THEN 0
    ELSE (Len(docs[1].content) \div 4) + content_tokens(Tail(docs))

\* RagService::retrieve_context: the mock retrieval, which always succeeds
\* with the same two documents written around the query.
retrieve_context(query, user_id) ==
    LET mock_documents ==
            <<Document("doc_1", "Architecture Overview",
                  "This document contains relevant information about " \o query
                  \o ". The ONE reference architecture uses React, Rust, and Tauri for cross-platform development."),
              Document("doc_2", "Implementation Details",
                  "Implementation details related to " \o query
                  \o ". The shared Rust handlers provide consistent API responses across web and desktop platforms.")>>
    IN  Ok([documents |-> mock_documents,
            query |-> query,
            relevance_scores |-> <<85, 78>>,
            total_tokens |-> content_tokens(mock_documents)])

\* `{:.2}` of a score kept in hundredths.
fmt_relevance(score) ==
    ToString(score \div 100) \o "."
    \o ToString((score % 100) \div 10) \o ToString(score % 10)

\* The loop of format_context_for_llm over documents i..Len (1-based).
RECURSIVE format_documents(_, _)
format_documents(context, i) ==
    IF i > Len(context.documents) THEN ""
    ELSE LET doc == context.documents[i]
             relevance == IF i <= Len(context.relevance_scores)
                          THEN context.relevance_scores[i] ELSE 0
         IN  "## Document " \o ToString(i) \o ": " \o doc.title
             \o " (Relevance: " \o fmt_relevance(relevance) \o ")\n"
             \o doc.content \o "\n\n"
             \o format_documents(context, i + 1)

\* RagService::format_context_for_llm
format_context_for_llm(context) ==
    "# Relevant Context Documents\n\n"
    \o "Query: " \o context.query \o "\n\n"
    \o format_documents(context, 1)
    \o "Use the above context to provide more accurate and relevant responses.\n"

\* Mutant: the position of the last user message.
insert_position_last_user(msgs) ==
    IF \E i \in 1..Len(msgs) : msgs[i].role = "user"
    THEN (CHOOSE i \in 1..Len(msgs) :
              /\ msgs[i].role = "user"
              /\ \A j \in (i + 1)..Len(msgs) : msgs[j].role /= "user") - 1
    ELSE Len(msgs)

\* `messages.iter().position(|msg| msg.role == "user").unwrap_or(messages.len())`
\* as a 0-based index.
insert_position(msgs) ==
    IF \E i \in 1..Len(msgs) : msgs[i].role = "user"
    THEN (CHOOSE i \in 1..Len(msgs) :
              /\ msgs[i].role = "user"
              /\ \A j \in 1..(i - 1) : msgs[j].role /= "user") - 1
    ELSE Len(msgs)

\* Vec::insert(index, element), index 0-based.
vec_insert(v, index, element) ==
    SubSeq(v, 1, index) \o <<element>> \o SubSeq(v, index + 1, Len(v))

\* Mutant: the early return on an empty context is missing.
enhance_messages_always(msgs, context) ==
    vec_insert(msgs, insert_position(msgs),
               ChatMessage("system", Some(format_context_for_llm(context)),
                           None, None, Some("rag_context")))

\* RagService::enhance_messages_with_context: the message list it leaves.
enhance_messages_with_context(msgs, context) ==
    IF context.documents = <<>> THEN msgs
    ELSE LET context_message ==
                 ChatMessage("system", Some(format_context_for_llm(context)),
                             None, None, Some("rag_context"))
         IN  vec_insert(msgs, insert_position(msgs), context_message)

-----------------------------------------------------------------------------
(* ai.rs: chat_completions_handler                                         *)

\* Mutant: a tool call is counted as one token.
message_tokens_call_as_one(msg) ==
    LET content_tokens_ == IF is_some(msg.content)
                           THEN Len(unwrap(msg.content)) \div 4 ELSE 0
        tool_tokens == IF is_some(msg.tool_calls)
                       THEN Len(unwrap(msg.tool_calls)) ELSE 0
    IN  content_tokens_ + tool_tokens

\* calculate_tokens: per message, content.len() as u32 / 4 plus
\* tool_calls.len() as u32 * 10, summed.
message_tokens(msg) ==
    LET content_tokens_ == IF is_some(msg.content)
                           THEN Len(unwrap(msg.content)) \div 4 ELSE 0
        tool_tokens == IF is_some(msg.tool_calls)
                       THEN Len(unwrap(msg.tool_calls)) * 10 ELSE 0
    IN  content_tokens_ + tool_tokens

calculate_tokens(msgs) ==
    sum_u32([i \in 1..Len(msgs) |-> message_tokens(msgs[i])])

\* Mutant: the last message of any role is taken.
extract_user_query_any_role(msgs) ==
    IF msgs = <<>> THEN ""
    ELSE LET last == msgs[Len(msgs)]
         IN  IF is_some(last.content) THEN unwrap(last.content) ELSE ""

\* Mutant: the contents of all user messages, joined.
RECURSIVE extract_user_query_all_users(_)
extract_user_query_all_users(msgs) ==
    IF msgs = <<>> THEN ""
    ELSE LET m == msgs[1]
             rest == extract_user_query_all_users(Tail(msgs))
         IN  IF m.role = "user" /\ is_some(m.content)
             THEN unwrap(m.content) \o (IF rest = "" THEN "" ELSE " " \o rest)
             ELSE rest

\* `.filter(|msg| msg.role == "user").last().and_then(|msg| msg.content.as_ref())
\*  .map_or(String::new(), |v| v.clone())`
extract_user_query(msgs) ==
    LET users == SelectSeq(msgs, LAMBDA m : m.role = "user")
    IN  IF users = <<>> THEN ""
        ELSE LET last == users[Len(users)]
             IN  IF is_some(last.content) THEN unwrap(last.content) ELSE ""

\* `request.messages.iter().any(|msg| msg.role == "tool")`
has_tool_message(msgs) == \E i \in 1..Len(msgs) : msgs[i].role = "tool"

\* Mutant: the registry is never consulted.
resolve_tools_caller_only(request_tools, reg) == request_tools

\* Mutant: the registry's tools are added to the caller's.
resolve_tools_merged(request_tools, reg) ==
    LET mcp_tools == get_available_tools(reg)
    IN  IF is_none(request_tools)
        THEN (IF mcp_tools /= <<>> THEN Some(mcp_tools) ELSE request_tools)
        ELSE Some(unwrap(request_tools) \o mcp_tools)

\* The tool set the handler works with: the caller's, or, when the caller
\* sent none, the registry's when it lists any tool.
resolve_tools(request_tools, reg) ==
    IF is_none(request_tools)
    THEN LET mcp_tools == get_available_tools(reg)
         IN  IF mcp_tools /= <<>> THEN Some(mcp_tools) ELSE request_tools
    ELSE request_tools

\* Mutant: the user's words are not looked at.
should_call_tool_whatever_the_query(available_tools, has_tool_call_response, user_query) ==
    /\ is_some(available_tools)
    /\ ~has_tool_call_response

\* Mutant: the tool-result turn is not looked at.
should_call_tool_ignoring_tool_turn(available_tools, has_tool_call_response, user_query) ==
    /\ is_some(available_tools)
    /\ (\/ contains(user_query, "search")
        \/ contains(user_query, "file")
        \/ contains(user_query, "read"))

\* The mock decision of the handler.
should_call_tool(available_tools, has_tool_call_response, user_query) ==
    /\ is_some(available_tools)
    /\ ~has_tool_call_response
    /\ (\/ contains(user_query, "search")
        \/ contains(user_query, "file")
        \/ contains(user_query, "read"))

\* Mutant: a file word outranks the search word.
make_tool_call_file_first(user_query, now) ==
    LET to_file == contains(user_query, "file") \/ contains(user_query, "read")
    IN  ToolCall("call_" \o ToString(now),
            FunctionCall(
                IF to_file THEN "read_file" ELSE "search_web",
                IF to_file
                THEN "{\"path\":\"/example/file.txt\"}"
                ELSE "{\"max_results\":3,\"query\":" \o json_string(user_query) \o "}"))

\* The single ToolCall of a tool-call response.  `arguments` is the text
\* serde_json renders of the json! object, its keys in sorted order.
make_tool_call(user_query, now) ==
    ToolCall("call_" \o ToString(now),
        FunctionCall(
            IF contains(user_query, "search") THEN "search_web" ELSE "read_file",
            IF contains(user_query, "search")
            THEN "{\"max_results\":3,\"query\":" \o json_string(user_query) \o "}"
            ELSE "{\"path\":\"/example/file.txt\"}"))

\* Mutant: total_tokens leaves the completion out.
Usage_total_is_prompt(prompt_tokens, completion_tokens) ==
    [prompt_tokens |-> prompt_tokens,
     completion_tokens |-> completion_tokens,
     total_tokens |-> prompt_tokens]

Usage(prompt_tokens, completion_tokens) ==
    [prompt_tokens |-> prompt_tokens,
     completion_tokens |-> completion_tokens,
     total_tokens |-> prompt_tokens + completion_tokens]

ChatCompletionResponse(model, message, finish_reason, usage, now) ==
    [id |-> "chatcmpl-" \o ToString(now),
     object |-> "chat.completion",
     created |-> now,
     model |-> model,
     choices |-> <<[index |-> 0, message |-> message, finish_reason |-> finish_reason]>>,
     usage |-> usage]

\* Mutant: the tool-call message carries a text as well.
tool_call_response_with_text(model, msgs, user_query, now) ==
    ChatCompletionResponse(model,
        ChatMessage("assistant", Some("Calling a tool."),
                    Some(<<make_tool_call(user_query, now)>>), None, None),
        "tool_calls",
        Usage(calculate_tokens(msgs), 25),
        now)

\* The tool-call branch of the handler.
tool_call_response(model, msgs, user_query, now) ==
    ChatCompletionResponse(model,
        ChatMessage("assistant", None, Some(<<make_tool_call(user_query, now)>>), None, None),
        "tool_calls",
        Usage(calculate_tokens(msgs), 25),
        now)

\* The text branch of the handler.
text_response(model, msgs, available_tools, now) ==
    LET context_info ==
            IF \E i \in 1..Len(msgs) : msgs[i].name = Some("rag_context")
            THEN " (Enhanced with RAG context from your documents)" ELSE ""
        tool_info ==
            IF is_some(available_tools)
            THEN " " \o ToString(Len(unwrap(available_tools))) \o " MCP tools are available."
            ELSE ""
    IN  ChatCompletionResponse(model,
            ChatMessage("assistant",
                Some("This is a response from the shared Rust handler with full tool calling and RAG support. "
                     \o "You sent " \o ToString(Len(msgs)) \o " messages to model '" \o model \o "'."
                     \o context_info \o tool_info
                     \o " This response is compatible with assistant-ui and ag-ui."),
                None, None, None),
            "stop",
            Usage(calculate_tokens(msgs), 75),
            now)

\* Mutant: a failed retrieval leaves a note among the messages.
enhance_if_ok_or_note(msgs, rag_context) ==
    IF is_none(rag_context) THEN msgs
    ELSE IF unwrap(rag_context).ok
         THEN enhance_messages_with_context(msgs, unwrap(rag_context).value)
         ELSE Append(msgs, ChatMessage("system", Some("No context available."),
                                       None, None, Some("rag_context")))

\* `if let Ok(rag_context) = .. { enhance_messages_with_context(..) }`, for
\* the retrieval that was made, if one was.
enhance_if_ok(msgs, rag_context) ==
    IF is_some(rag_context) /\ unwrap(rag_context).ok
    THEN enhance_messages_with_context(msgs, unwrap(rag_context).value)
    ELSE msgs

\* Mutant: tool_choice "none" keeps the handler from calling a tool.
chat_completions_honouring_none(req, reg, now, retrieved) ==
    LET mcp_registry == initialize_default_mcp_servers(reg)
        user_query == extract_user_query(req.messages)
        rag_context == IF user_query /= "" THEN Some(retrieved) ELSE None
        enhanced == enhance_if_ok(req.messages, rag_context)
        has_tool_call_response == has_tool_message(enhanced)
        available_tools == resolve_tools(req.tools, mcp_registry)
    IN  [registry |-> mcp_registry,
         messages |-> enhanced,
         available_tools |-> available_tools,
         rag_calls |-> IF is_some(rag_context) THEN 1 ELSE 0,
         rag_context |-> rag_context,
         result |->
            Ok(IF should_call_tool(available_tools, has_tool_call_response, user_query)
                  /\ req.tool_choice /= Some([kind |-> "mode", name |-> "none"])
               THEN tool_call_response(req.model, enhanced, user_query, now)
               ELSE text_response(req.model, enhanced, available_tools, now))]

\* chat_completions_handler when retrieve_context, if it is called, returns
\* `retrieved`: the registry it leaves, the message list and the tool set
\* it ends with, the retrieval it made and what it returns.
chat_completions_with(req, reg, now, retrieved) ==
    LET mcp_registry == initialize_default_mcp_servers(reg)
        user_query == extract_user_query(req.messages)
        rag_context == IF user_query /= "" THEN Some(retrieved) ELSE None
        enhanced == enhance_if_ok(req.messages, rag_context)
        has_tool_call_response == has_tool_message(enhanced)
        available_tools == resolve_tools(req.tools, mcp_registry)
    IN  [registry |-> mcp_registry,
         messages |-> enhanced,
         available_tools |-> available_tools,
         rag_calls |-> IF is_some(rag_context) THEN 1 ELSE 0,
         rag_context |-> rag_context,
         result |->
            Ok(IF should_call_tool(available_tools, has_tool_call_response, user_query)
                  /\ is_some(available_tools)
               THEN tool_call_response(req.model, enhanced, user_query, now)
               ELSE text_response(req.model, enhanced, available_tools, now))]

\* chat_completions_handler, on request `req` with the registry as `reg` and
\* the clock reading `now`, with the retrieval service of rag.rs.
chat_completions_handler(req, reg, now) ==
    chat_completions_with(req, reg, now,
                          retrieve_context(extract_user_query(req.messages), None))

-----------------------------------------------------------------------------
(* The requests the model sends                                            *)

\* The longest message list of a request.
MaxMsgs == 3

\* A content of 40 bytes that holds none of the routing words.
Content40 == "aaaaaaaaaabbbbbbbbbbccccccccccdddddddddd"

\* A tool call as an earlier assistant turn carries it.
EarlierCall ==
    ToolCall("call_1", FunctionCall("search_web", "{\"max_results\":3,\"query\":\"rust\"}"))

\* The messages requests are built from: every role; user contents that are
\* absent, empty, free of routing words, and holding each routing word;
\* routing words in messages that are not the user's; tool calls.
MessagePool ==
    { ChatMessage("user", None, None, None, None),
      ChatMessage("user", Some(""), None, None, None),
      ChatMessage("user", Some("hello there"), None, None, None),
      ChatMessage("user", Some("search for rust async patterns"), None, None, None),
      ChatMessage("user", Some("read the file"), None, None, None),
      ChatMessage("user", Some("search the file"), None, None, None),
      ChatMessage("user", Some("read it aloud"), None, None, None),
      ChatMessage("user", Some(Content40), None, None, None),
      ChatMessage("system", Some(Content40), None, None, None),
      ChatMessage("system", Some("search the docs and read files"), None, None, None),
      ChatMessage("assistant", None, Some(<<EarlierCall>>), None, None),
      ChatMessage("tool", Some("search results: async book"), None, Some("call_1"), Some("search_web")) }

MessageLists == UNION {[1..n -> MessagePool] : n \in 0..MaxMsgs}

\* ToolChoice: a mode keyword or a pinned function.
ToolChoice_Auto(mode) == [kind |-> "mode", name |-> mode]
ToolChoice_Function(name) == [kind |-> "function", name |-> name]

\* The `tools`, `stream` and `tool_choice` fields requests are sent with.
RequestOptions ==
    { [tools |-> None, stream |-> None, tool_choice |-> None],
      [tools |-> Some(<<>>), stream |-> None, tool_choice |-> None],
      [tools |-> Some(<<Tool("search_web", "caller's search"),
                        Tool("read_file", "caller's reader")>>),
       stream |-> Some(FALSE), tool_choice |-> Some(ToolChoice_Auto("auto"))],
      [tools |-> Some(<<Tool("get_weather", "caller's weather")>>),
       stream |-> None, tool_choice |-> Some(ToolChoice_Function("get_weather"))],
      [tools |-> None, stream |-> Some(TRUE), tool_choice |-> Some(ToolChoice_Auto("none"))] }

ChatCompletionRequest(model, msgs, options) ==
    [model |-> model, messages |-> msgs, temperature |-> None, max_tokens |-> None,
     stream |-> options.stream, tools |-> options.tools,
     tool_choice |-> options.tool_choice]

Requests ==
    {ChatCompletionRequest("gpt-4", msgs, o) : msgs \in MessageLists, o \in RequestOptions}

\* Readings of chrono::Utc::now().timestamp().
Timestamps == {1762153200}

-----------------------------------------------------------------------------
(* ai_proxy.rs: constants of the AIProxyServer                             *)

\* The port AIProxyServer::new asks for.
DefaultPort == 8080

\* `for attempt in 1..=5` of verify_server_health.
MaxAttempts == 5

-----------------------------------------------------------------------------
(* The gateway answering requests                                          *)

\* A server an embedding program registers on its own: one tool under a name
\* the default servers use too, one under a name of its own.
plugin_server ==
    McpServer("plugin", "Plugin tools",
              <<McpTool("search_web", "Search through the plugin", "plugin"),
                McpTool("lookup", "Look a term up", "plugin")>>)

\* The registry before the first request: as McpRegistry::new made it, or
\* with the plugin server registered.
InitialRegistries ==
    {McpRegistry_new, register_server(McpRegistry_new, plugin_server)}

\* No request is being answered.
GatewayIdle ==
    /\ request = None
    /\ messages = <<>>
    /\ available = None
    /\ response = None
    /\ rag_calls = 0
    /\ rag_result = None
    /\ exec_result = None

\* No request is being answered; the registry is as McpRegistry::new made it.
GatewayInit ==
    /\ registry = McpRegistry_new
    /\ GatewayIdle

\* No call of enhance_messages_with_context is being observed.
RetrieveIdle ==
    /\ ret_query = ""
    /\ ret_user_id = None
    /\ ret_result = None

RagIdle ==
    /\ enh_messages = <<>>
    /\ enh_context = None
    /\ enh_result = None
    /\ RetrieveIdle

\* AIProxyServer::new, with no serving task and no start() under way.
ProxyNew ==
    /\ port = DefaultPort
    /\ is_running = FALSE
    /\ server_handle = None
    /\ task = "none"
    /\ pc = "idle"
    /\ attempt = 0
    /\ health_log = <<>>
    /\ start_result = None
    /\ exhausted = FALSE
    /\ stop_since = FALSE

\* The shared state of the host before its background task has run.
HostNew ==
    /\ ai_server_state = None
    /\ query_result = None

\* The most requests the runtime answers at the same time.
MaxHandlers == 2

Handlers == 1..MaxHandlers

\* Where a handler stands: before at `at` (and, inside
\* initialize_default_mcp_servers, before its i-th write); `lists` tells
\* whether its request came without tools, so that it lists the registry's.
HandlerAt(at, i, lists) == [at |-> at, i |-> i, lists |-> lists]

\* No request is being answered in parallel and no singleton has been used.
RaceIdle ==
    /\ handlers = [h \in Handlers |-> HandlerAt("idle", 0, FALSE)]
    /\ constructed = [mcp |-> 0, rag |-> 0]
    /\ default_inits = 0
    /\ listings = [h \in Handlers |-> None]
    /\ overlap = FALSE

Init == GatewayInit /\ RagIdle /\ ProxyNew /\ HostNew /\ RaceIdle

\* Requests are answered one at a time, each by a whole run of the handler.
InitGateway ==
    /\ registry \in InitialRegistries
    /\ GatewayIdle
    /\ RagIdle
    /\ ProxyNew
    /\ HostNew
    /\ RaceIdle

\* POST /v1/chat/completions: the route hands the request to
\* chat_completions_handler, which runs to its return.
ChatCompletions ==
    /\ is_none(request)
    /\ \E req \in Requests, now \in Timestamps :
          LET out == chat_completions_handler(req, registry, now)
          IN  /\ request' = Some(req)
              /\ registry' = out.registry
              /\ messages' = out.messages
              /\ available' = out.available_tools
              /\ rag_calls' = out.rag_calls
              /\ rag_result' = out.rag_context
              /\ response' = Some(out.result)
    /\ UNCHANGED <<exec_result, ragVars, proxyVars, hostVars, raceVars>>

\* The route returns the handler's result to the caller; nothing of the
\* request outlives it but the registry.
Respond ==
    /\ is_some(request)
    /\ request' = None
    /\ messages' = <<>>
    /\ available' = None
    /\ response' = None
    /\ rag_calls' = 0
    /\ rag_result' = None
    /\ UNCHANGED <<registry, exec_result, ragVars, proxyVars, hostVars, raceVars>>

Next == ChatCompletions \/ Respond

Spec == InitGateway /\ [][Next]_vars

-----------------------------------------------------------------------------
(* The handler over a retrieval backend that can be unavailable            *)

\* What a call of retrieve_context can come back with once a backend stands
\* behind it: the context, or the backend's failure.  retrieve_context of
\* rag.rs is a mock that only ever returns the first.
retrieval_outcomes(query) ==
    {retrieve_context(query, None), Err("retrieval backend unavailable")}

\* POST /v1/chat/completions, answered by the handler with either outcome
\* of the retrieval it makes.
ChatCompletionsOverBackend ==
    /\ is_none(request)
    /\ \E req \in Requests, now \in Timestamps :
          \E retrieved \in retrieval_outcomes(extract_user_query(req.messages)) :
             LET out == chat_completions_with(req, registry, now, retrieved)
             IN  /\ request' = Some(req)
                 /\ registry' = out.registry
                 /\ messages' = out.messages
                 /\ available' = out.available_tools
                 /\ rag_calls' = out.rag_calls
                 /\ rag_result' = out.rag_context
                 /\ response' = Some(out.result)
    /\ UNCHANGED <<exec_result, ragVars, proxyVars, hostVars, raceVars>>

NextOverBackend == ChatCompletionsOverBackend \/ Respond

SpecOverBackend == Init /\ [][NextOverBackend]_vars

-----------------------------------------------------------------------------
(* RagService::enhance_messages_with_context on its own                    *)

\* A context that keeps the first n documents of a retrieval.
first_documents(context, n) ==
    [context EXCEPT !.documents = SubSeq(context.documents, 1, n),
                    !.relevance_scores = SubSeq(context.relevance_scores, 1, n),
                    !.total_tokens = content_tokens(SubSeq(context.documents, 1, n))]

\* The contexts the function is called with: a retrieval's, cut to none,
\* one or all of its documents.
RagContexts ==
    LET full == retrieve_context("hello there", None).value
    IN  {first_documents(full, n) : n \in 0..Len(full.documents)}

InitRag ==
    /\ GatewayInit
    /\ ProxyNew
    /\ HostNew
    /\ RaceIdle
    /\ enh_messages \in MessageLists
    /\ enh_context \in {Some(c) : c \in RagContexts}
    /\ enh_result = None
    /\ RetrieveIdle

\* The call runs to its return.
EnhanceMessages ==
    /\ is_some(enh_context)
    /\ is_none(enh_result)
    /\ enh_result' = Some(enhance_messages_with_context(enh_messages, unwrap(enh_context)))
    /\ UNCHANGED <<enh_messages, enh_context, retrieveVars, gatewayVars, proxyVars, hostVars,
                   raceVars>>

NextRag == EnhanceMessages

SpecRag == InitRag /\ [][NextRag]_vars

-----------------------------------------------------------------------------
(* Calls of retrieve_context                                               *)

\* The longest query retrieved for, in blocks of forty characters.
MaxQueryBlocks == 200

\* `times` copies of s, one after the other.
RECURSIVE repeat(_, _)
repeat(s, times) ==
    IF times = 0 THEN ""
    ELSE LET half == repeat(s, times \div 2)
         IN  half \o half \o (IF times % 2 = 1 THEN s ELSE "")

\* The queries retrieved for: the empty one and ever longer ones.
Queries == {repeat(Content40, n) : n \in 0..MaxQueryBlocks}

UserIds == {None, Some("user_1")}

InitRetrieve ==
    /\ GatewayInit
    /\ ProxyNew
    /\ HostNew
    /\ RaceIdle
    /\ enh_messages = <<>>
    /\ enh_context = None
    /\ enh_result = None
    /\ ret_query \in Queries
    /\ ret_user_id \in UserIds
    /\ ret_result = None

\* The call runs to its return.
RetrieveContext ==
    /\ is_none(ret_result)
    /\ ret_result' = Some(retrieve_context(ret_query, ret_user_id))
    /\ UNCHANGED <<ret_query, ret_user_id, enh_messages, enh_context, enh_result,
                   gatewayVars, proxyVars, hostVars, raceVars>>

NextRetrieve == RetrieveContext

SpecRetrieve == InitRetrieve /\ [][NextRetrieve]_vars

-----------------------------------------------------------------------------
(* The registry under registrations and removals                           *)

\* The longest tool list of a server that is registered.
MaxServerTools == 2

ServerNames == {"filesystem", "web_search"}
ToolNames == {"read_file", "write_file", "search_web"}

tool_description(name) ==
    CASE name = "read_file" -> "Read contents of a file"
      [] name = "write_file" -> "Write content to a file"
      [] OTHER -> "Search the web for information"

server_description(name) ==
    IF name = "filesystem" THEN "File system operations" ELSE "Web search capabilities"

\* The servers callers register: either name with any list of tools, each
\* tool naming the server that carries it.  The two default servers are
\* among them.
McpServers ==
    { McpServer(s, server_description(s),
                [i \in 1..n |-> McpTool(names[i], tool_description(names[i]), s)]) :
        s \in ServerNames,
        n \in 0..MaxServerTools,
        names \in [1..MaxServerTools -> ToolNames] }

\* registry.register_server(server)
RegisterServer ==
    /\ \E server \in McpServers : registry' = register_server(registry, server)
    /\ UNCHANGED <<requestVars, exec_result, ragVars, proxyVars, hostVars, raceVars>>

\* registry.unregister_server(server_name)
UnregisterServer ==
    /\ \E server_name \in ServerNames :
          registry' = unregister_server(registry, server_name)
    /\ UNCHANGED <<requestVars, exec_result, ragVars, proxyVars, hostVars, raceVars>>

\* initialize_default_mcp_servers(), as every request runs it
InitializeDefaultMcpServers ==
    /\ registry' = initialize_default_mcp_servers(registry)
    /\ UNCHANGED <<requestVars, exec_result, ragVars, proxyVars, hostVars, raceVars>>

\* The tool calls that are executed: one for a tool name servers carry, and
\* one for a name no server carries.
ToolCallsTried ==
    {ToolCall("call_" \o n, FunctionCall(n, "{\"path\":\"/example/file.txt\"}")) :
        n \in {"read_file", "lookup"}}

\* registry.execute_tool_call(&tool_call).await
ExecuteToolCall ==
    /\ \E tool_call \in ToolCallsTried :
          LET out == execute_tool_call(registry, tool_call)
          IN  /\ registry' = out.registry
              /\ exec_result' = Some([tool_call |-> tool_call, result |-> out.result])
    /\ UNCHANGED <<requestVars, ragVars, proxyVars, hostVars, raceVars>>

NextRegistry ==
    \/ RegisterServer \/ UnregisterServer \/ InitializeDefaultMcpServers
    \/ ExecuteToolCall

SpecRegistry == Init /\ [][NextRegistry]_vars

-----------------------------------------------------------------------------
(* ai_proxy.rs: AIProxyServer::start, verify_server_health and stop        *)

\* What a liveness request can come back with: a success status, another
\* status, or no response (a refused connection, the 5 s timeout).
HealthOutcomes == {"success", "status_error", "error"}

\* Mutant: any response counts as healthy, whatever its status.
is_success_any_response(outcome) == outcome /= "error"

\* response.status().is_success() of an Ok(response); no response is no
\* success.
is_success(outcome) == outcome = "success"

\* Mutant: the loop runs `1..=6`.
attempts_exhausted_one_late(n) == n >= MaxAttempts + 1

\* The loop of verify_server_health ends after attempt number MaxAttempts.
attempts_exhausted(n) == n >= MaxAttempts

\* start() up to its first await after the spawn: the router is built, the
\* listener bound and the serving task spawned.  The bind fails while a
\* serving task still holds the port, and may fail because another process
\* does; start() then returns the error at once.
StartBind ==
    /\ pc = "idle"
    /\ \E bound \in BOOLEAN :
          /\ task = "serving" => ~bound
          /\ IF bound
             THEN /\ task' = "serving"
                  /\ server_handle' = Some("task")
                  /\ pc' = "settling"
                  /\ start_result' = None
                  /\ health_log' = <<>>
             ELSE /\ start_result' = Some(Err("bind"))
                  /\ UNCHANGED <<task, server_handle, pc, health_log>>
    /\ stop_since' = FALSE
    /\ UNCHANGED <<port, is_running, attempt, exhausted,
                   gatewayVars, ragVars, hostVars, raceVars>>

\* The 500 ms sleep of start() is over; verify_server_health begins.
Settle ==
    /\ pc = "settling"
    /\ pc' = "verifying"
    /\ attempt' = 1
    /\ UNCHANGED <<port, is_running, server_handle, task, health_log, start_result,
                   exhausted, stop_since, gatewayVars, ragVars, hostVars, raceVars>>

\* One pass of the loop of verify_server_health: a liveness request and
\* what follows it (return true, go on, or leave the loop).
HealthAttempt ==
    /\ pc = "verifying"
    /\ \E outcome \in HealthOutcomes :
          /\ health_log' = Append(health_log, outcome)
          /\ IF is_success(outcome)
             THEN pc' = "healthy" /\ UNCHANGED attempt
             ELSE IF attempts_exhausted(attempt)
                  THEN pc' = "unhealthy" /\ UNCHANGED attempt
                  ELSE attempt' = attempt + 1 /\ UNCHANGED pc
    /\ UNCHANGED <<port, is_running, server_handle, task, start_result, exhausted,
                   stop_since, gatewayVars, ragVars, hostVars, raceVars>>

\* start() returns: Ok(port) with is_running set when the health check
\* passed, the error otherwise.
StartReturn ==
    /\ pc \in {"healthy", "unhealthy"}
    /\ IF pc = "healthy"
       THEN /\ is_running' = TRUE
            /\ start_result' = Some(Ok(port))
       ELSE /\ start_result' = Some(Err("Failed to start AI Proxy server"))
            /\ UNCHANGED is_running
    /\ pc' = "idle"
    /\ exhausted' = (exhausted \/ pc = "unhealthy")
    /\ UNCHANGED <<port, server_handle, task, attempt, health_log, stop_since,
                   gatewayVars, ragVars, hostVars, raceVars>>

\* Mutant: stop() aborts the task and forgets `self.is_running = false`.
Stop_leaving_flag ==
    /\ pc = "idle"
    /\ IF is_some(server_handle)
       THEN task' = "aborted" /\ server_handle' = None
       ELSE UNCHANGED <<task, server_handle>>
    /\ stop_since' = TRUE
    /\ UNCHANGED <<port, is_running, pc, attempt, health_log, start_result, exhausted,
                   gatewayVars, ragVars, hostVars, raceVars>>

\* stop(): the handle, if any, is taken and its task aborted; is_running is
\* cleared.  `&mut self` keeps it from running while start() does.
Stop ==
    /\ pc = "idle"
    /\ IF is_some(server_handle)
       THEN task' = "aborted" /\ server_handle' = None
       ELSE UNCHANGED <<task, server_handle>>
    /\ is_running' = FALSE
    /\ stop_since' = TRUE
    /\ UNCHANGED <<port, pc, attempt, health_log, start_result, exhausted,
                   gatewayVars, ragVars, hostVars, raceVars>>

NextProxy == StartBind \/ Settle \/ HealthAttempt \/ StartReturn \/ Stop

SpecProxy == Init /\ [][NextProxy]_vars

\* Every await of start() completes: the sleeps end, and a liveness request
\* ends with a response or with its client's timeout.
SpecProxyFair ==
    /\ Init /\ [][NextProxy]_vars
    /\ WF_vars(Settle) /\ WF_vars(HealthAttempt) /\ WF_vars(StartReturn)

-----------------------------------------------------------------------------
(* lib.rs and ai_proxy.rs: the host, its background task and its commands  *)

\* AIProxyServer::get_base_url
get_base_url(p) == "http://127.0.0.1:" \o ToString(p)

\* The tauri command get_ai_proxy_url, under the read lock.
get_ai_proxy_url(state, p) ==
    IF is_some(state)
    THEN Ok(get_base_url(p))
    ELSE Err("AI Proxy server not initialized")

\* The tauri command is_ai_proxy_running, under the read lock.
is_ai_proxy_running(state, running) ==
    IF is_some(state) THEN Ok(running) ELSE Ok(FALSE)

\* Mutant: the background task stores the server whatever start() returned.
publishes_any_outcome(result) == TRUE

\* The background task stores the server in the shared state in the Ok arm
\* of its match on start()'s result, and only there.
publishes(result) == result.ok

\* The background task creates the server and calls start(), once.
HostStart ==
    /\ start_result = None
    /\ ai_server_state = None
    /\ StartBind

\* The task takes the write lock and moves the server into the shared state.
Publish ==
    /\ pc = "idle"
    /\ is_some(start_result)
    /\ publishes(unwrap(start_result))
    /\ ai_server_state = None
    /\ ai_server_state' = Some("server")
    /\ UNCHANGED <<query_result, gatewayVars, ragVars, proxyVars, raceVars>>

\* The Err arm: the server goes out of scope at the end of the task, and
\* Drop aborts the serving task whose handle it still holds.
DropServer ==
    /\ pc = "idle"
    /\ is_some(start_result)
    /\ ~unwrap(start_result).ok
    /\ ai_server_state = None
    /\ is_some(server_handle)
    /\ task' = "aborted"
    /\ server_handle' = None
    /\ UNCHANGED <<port, is_running, pc, attempt, health_log, start_result, exhausted,
                   stop_since, gatewayVars, ragVars, hostVars, raceVars>>

\* The webview invokes get_ai_proxy_url.
GetAiProxyUrl ==
    /\ query_result' = Some([command |-> "get_ai_proxy_url",
                             result |-> get_ai_proxy_url(ai_server_state, port)])
    /\ UNCHANGED <<ai_server_state, gatewayVars, ragVars, proxyVars, raceVars>>

\* The webview invokes is_ai_proxy_running.
IsAiProxyRunning ==
    /\ query_result' = Some([command |-> "is_ai_proxy_running",
                             result |-> is_ai_proxy_running(ai_server_state, is_running)])
    /\ UNCHANGED <<ai_server_state, gatewayVars, ragVars, proxyVars, raceVars>>

NextHost ==
    \/ HostStart \/ Settle \/ HealthAttempt \/ StartReturn
    \/ Publish \/ DropServer
    \/ GetAiProxyUrl \/ IsAiProxyRunning

\* The commands may be invoked at any moment of the background task.
SpecHost == Init /\ [][NextHost]_vars

-----------------------------------------------------------------------------
(* ai.rs, mcp.rs, rag.rs: handlers running in parallel on the singletons   *)

\* The HashMap writes of one register_server call, in the order it makes
\* them: one insert into `tools` per carried tool, then the insert into
\* `servers`.
register_writes(server) ==
    [i \in 1..(Len(server.tools) + 1) |->
        [kind |-> IF i <= Len(server.tools) THEN "tool" ELSE "server",
         server |-> server,
         index |-> i]]

\* The writes of initialize_default_mcp_servers.
default_writes == register_writes(fs_server) \o register_writes(web_server)

\* One HashMap::insert of register_server.
apply_write(reg, w) ==
    IF w.kind = "tool"
    THEN [reg EXCEPT !.tools = insert(@, w.server.tools[w.index].name,
                                         w.server.tools[w.index])]
    ELSE [reg EXCEPT !.servers = insert(@, w.server.name, w.server)]

\* Handler h stands inside a register_server call: it has made a write of
\* the call and has another one of the same call to make.
InRegister(h) ==
    /\ handlers[h].at = "write"
    /\ handlers[h].i > 1
    /\ default_writes[handlers[h].i - 1].server.name
          = default_writes[handlers[h].i].server.name

\* get_mcp_registry hands every caller a `&'static mut` to the same
\* McpRegistry with no lock, so a handler's access can fall inside another
\* handler's register_server.
Overlapped(h) == \E q \in Handlers \ {h} : InRegister(q)

\* What an unsynchronised HashMap::insert can leave when it overlaps another
\* handler's writes: the map with the entry, or the map without it.
write_outcomes(reg, w, racing) ==
    IF racing THEN {apply_write(reg, w), reg} ELSE {apply_write(reg, w)}

\* What get_available_tools can return when its iteration overlaps another
\* handler's writes: the tools of any part of the index.
list_outcomes(reg, racing) ==
    IF racing
    THEN {get_available_tools([reg EXCEPT !.tools = [t \in seen |-> reg.tools[t]]]) :
             seen \in SUBSET DOMAIN reg.tools}
    ELSE {get_available_tools(reg)}

\* The handler is left at `at`, or, after a racing access, possibly dead:
\* a data race may also end the process.
MoveOn(h, at, i, racing) ==
    \E dies \in (IF racing THEN BOOLEAN ELSE {FALSE}) :
        handlers' = [handlers EXCEPT ![h] =
                        IF dies THEN HandlerAt("crashed", 0, @.lists)
                        ELSE HandlerAt(at, i, @.lists)]

\* A request reaches chat_completions_handler on a worker thread.
Arrive ==
    /\ \E h \in Handlers, lists \in BOOLEAN :
          /\ handlers[h].at = "idle"
          /\ handlers' = [handlers EXCEPT ![h] = HandlerAt("get_registry", 0, lists)]
    /\ UNCHANGED <<constructed, default_inits, listings, overlap,
                   gatewayVars, ragVars, proxyVars, hostVars>>

\* initialize_default_mcp_servers calls get_mcp_registry: INIT.call_once
\* runs McpRegistry::new on the first call only.
GetMcpRegistry ==
    /\ \E h \in Handlers :
          /\ handlers[h].at = "get_registry"
          /\ handlers' = [handlers EXCEPT ![h] = HandlerAt("write", 1, @.lists)]
    /\ IF constructed.mcp = 0
       THEN /\ registry' = McpRegistry_new
            /\ constructed' = [constructed EXCEPT !.mcp = @ + 1]
       ELSE UNCHANGED <<registry, constructed>>
    /\ UNCHANGED <<default_inits, listings, overlap,
                   requestVars, exec_result, ragVars, proxyVars, hostVars>>

\* The next write of the handler's initialize_default_mcp_servers; after the
\* last one the function returns.
DefaultWrite ==
    /\ \E h \in Handlers :
          LET i == handlers[h].i
              last == i = Len(default_writes)
          IN  /\ handlers[h].at = "write"
              /\ registry' \in write_outcomes(registry, default_writes[i], Overlapped(h))
              /\ overlap' = (overlap \/ Overlapped(h))
              /\ default_inits' = IF last THEN default_inits + 1 ELSE default_inits
              /\ IF last
                 THEN MoveOn(h, "rag_init", 0, Overlapped(h))
                 ELSE MoveOn(h, "write", i + 1, Overlapped(h))
    /\ UNCHANGED <<constructed, listings,
                   requestVars, exec_result, ragVars, proxyVars, hostVars>>

\* initialize_rag_service calls get_rag_service: RAG_INIT.call_once runs
\* RagService::new on the first call only.  The handler's own calls of
\* get_mcp_registry and get_rag_service that follow find both made.
InitializeRagService ==
    /\ \E h \in Handlers :
          /\ handlers[h].at = "rag_init"
          /\ handlers' = [handlers EXCEPT ![h] =
                             HandlerAt(IF @.lists THEN "list" ELSE "done", 0, @.lists)]
    /\ constructed' = [constructed EXCEPT !.rag = IF @ = 0 THEN 1 ELSE @]
    /\ UNCHANGED <<default_inits, listings, overlap,
                   gatewayVars, ragVars, proxyVars, hostVars>>

\* mcp_registry.get_available_tools() of a request that came without tools.
ListTools ==
    /\ \E h \in Handlers :
          /\ handlers[h].at = "list"
          /\ \E listed \in list_outcomes(registry, Overlapped(h)) :
                 listings' = [listings EXCEPT ![h] = Some(listed)]
          /\ overlap' = (overlap \/ Overlapped(h))
          /\ MoveOn(h, "done", 0, Overlapped(h))
    /\ UNCHANGED <<constructed, default_inits, gatewayVars, ragVars, proxyVars, hostVars>>

NextRace ==
    \/ Arrive \/ GetMcpRegistry \/ DefaultWrite \/ InitializeRagService \/ ListTools

\* Each worker thread answers one request; the threads run as they please.
SpecRace == Init /\ [][NextRace]_vars

-----------------------------------------------------------------------------
(* Properties of the handler                                               *)

\* The request being answered, the response to it and its single choice.
Answered == is_some(request) /\ is_some(response)
TheRequest == unwrap(request)
TheResponse == unwrap(response).value
TheChoice == TheResponse.choices[1]

\* The content of the last message of role user, "" when there is none or
\* it has no content (read off the list from its end).
RECURSIVE LastUserContent(_)
LastUserContent(msgs) ==
    IF msgs = <<>> THEN ""
    ELSE LET m == msgs[Len(msgs)]
         IN  IF m.role = "user"
             THEN (IF m.content = <<>> THEN "" ELSE m.content[1])
             ELSE LastUserContent(SubSeq(msgs, 1, Len(msgs) - 1))

HasRole(msgs, role) == \E i \in 1..Len(msgs) : msgs[i].role = role

HasRoutingTerm(text) ==
    contains(text, "search") \/ contains(text, "file") \/ contains(text, "read")

\* C1: a request holding a message of role tool is answered without a
\* ToolCall: the assistant message has no tool_calls and finish_reason is
\* not tool_calls.
C1_NoToolCallAfterToolResult ==
    (Answered /\ HasRole(TheRequest.messages, "tool"))
        => /\ unwrap(response).ok
           /\ is_none(TheChoice.message.tool_calls)
           /\ TheChoice.finish_reason /= "tool_calls"

\* A tool-result turn whose query would otherwise have been routed to a tool.
C1_Witness ==
    /\ Answered
    /\ HasRole(TheRequest.messages, "tool")
    /\ contains(LastUserContent(TheRequest.messages), "search")
    /\ is_some(available)
    /\ TheChoice.finish_reason = "stop"

\* C2: a request with no message of role user makes no retrieval call and
\* gets no context message: the handler's message list is the caller's.
C2_NoUserNoRetrieval ==
    (Answered /\ ~HasRole(TheRequest.messages, "user"))
        => /\ rag_calls = 0
           /\ messages = TheRequest.messages
           /\ \A i \in 1..Len(messages) : messages[i].name /= Some("rag_context")

\* A request of non-user messages only, one of them carrying routing words.
C2_Witness ==
    /\ Answered
    /\ TheRequest.messages /= <<>>
    /\ ~HasRole(TheRequest.messages, "user")
    /\ \E i \in 1..Len(TheRequest.messages) :
          /\ is_some(TheRequest.messages[i].content)
          /\ contains(unwrap(TheRequest.messages[i].content), "search")

\* The token estimate of a message list: per message a quarter of the
\* content's length, rounded down, and 10 for each tool call it carries.
RECURSIVE PromptTokenSum(_)
PromptTokenSum(msgs) ==
    IF msgs = <<>> THEN 0
    ELSE LET m == Head(msgs)
         IN  (IF m.content = <<>> THEN 0 ELSE Len(m.content[1]) \div 4)
             + 10 * (IF m.tool_calls = <<>> THEN 0 ELSE Len(m.tool_calls[1]))
             + PromptTokenSum(Tail(msgs))

\* A request of one message whose content is 40 bytes long and which
\* carries no tool call.
SingleMessage40(req) ==
    /\ Len(req.messages) = 1
    /\ is_some(req.messages[1].content)
    /\ Len(unwrap(req.messages[1].content)) = 40
    /\ is_none(req.messages[1].tool_calls)

\* The request with one tool call added to its first message.
WithOneMoreToolCall(req) ==
    LET m == req.messages[1]
        calls == IF is_some(m.tool_calls) THEN unwrap(m.tool_calls) ELSE <<>>
    IN  [req EXCEPT !.messages[1].tool_calls = Some(calls \o <<EarlierCall>>)]

\* What the handler reports as prompt_tokens for a request.
PromptTokensFor(req) ==
    chat_completions_handler(req, registry, 0).result.value.usage.prompt_tokens

\* C6 as claimed: prompt_tokens is the token estimate of the request's
\* messages; one message of 40 bytes gives 10 whatever its role, and one
\* more tool call on it gives 10 more.
C6_PromptTokensOfRequestMessages ==
    Answered =>
        /\ TheResponse.usage.prompt_tokens = PromptTokenSum(TheRequest.messages)
        /\ SingleMessage40(TheRequest) => TheResponse.usage.prompt_tokens = 10
        /\ SingleMessage40(TheRequest) =>
              PromptTokensFor(WithOneMoreToolCall(TheRequest))
                  = TheResponse.usage.prompt_tokens + 10

\* C6 amended: prompt_tokens is the token estimate of the message list after
\* context injection, which is the request's own estimate when the last user
\* content is absent or empty; one message of 40 bytes whose role is not
\* user gives 10; one more tool call on a single message gives 10 more,
\* whatever its role.
C6_PromptTokensOfEnhancedMessages ==
    Answered =>
        /\ TheResponse.usage.prompt_tokens = PromptTokenSum(messages)
        /\ LastUserContent(TheRequest.messages) = ""
              => TheResponse.usage.prompt_tokens = PromptTokenSum(TheRequest.messages)
        /\ (SingleMessage40(TheRequest) /\ TheRequest.messages[1].role /= "user")
              => TheResponse.usage.prompt_tokens = 10
        /\ Len(TheRequest.messages) = 1 =>
              PromptTokensFor(WithOneMoreToolCall(TheRequest))
                  = TheResponse.usage.prompt_tokens + 10

\* A single user message of 40 bytes, answered with more than 10 prompt
\* tokens because the injected context message is counted too.
C6_Witness ==
    /\ Answered
    /\ SingleMessage40(TheRequest)
    /\ TheRequest.messages[1].role = "user"
    /\ Len(messages) = 2
    /\ TheResponse.usage.prompt_tokens > 10

\* C7: completion_tokens is 25 exactly for a tool_calls response and 75
\* exactly for a stop response, and total_tokens is the sum of the two
\* other counts.
C7_CompletionAndTotalTokens ==
    Answered =>
        /\ TheResponse.usage.completion_tokens = 25
              <=> TheChoice.finish_reason = "tool_calls"
        /\ TheResponse.usage.completion_tokens = 75
              <=> TheChoice.finish_reason = "stop"
        /\ TheResponse.usage.total_tokens
              = TheResponse.usage.prompt_tokens + TheResponse.usage.completion_tokens

\* A tool-call response with a non-zero prompt estimate.
C7_Witness ==
    /\ Answered
    /\ TheChoice.finish_reason = "tool_calls"
    /\ TheResponse.usage.prompt_tokens > 0
    /\ TheResponse.usage.total_tokens = TheResponse.usage.prompt_tokens + 25

\* C8: no tool message, no tools from the caller, search_web and read_file
\* in the registry and "search" in the last user content: the response is
\* a tool_calls response with exactly one ToolCall, to search_web, whose
\* arguments hold the member "query" with the whole user content.
C8_SearchRoutesToSearchWeb ==
    (/\ Answered
     /\ ~HasRole(TheRequest.messages, "tool")
     /\ is_none(TheRequest.tools)
     /\ {"search_web", "read_file"} \subseteq DOMAIN registry.tools
     /\ contains(LastUserContent(TheRequest.messages), "search"))
        => /\ TheChoice.finish_reason = "tool_calls"
           /\ is_some(TheChoice.message.tool_calls)
           /\ Len(unwrap(TheChoice.message.tool_calls)) = 1
           /\ LET call == unwrap(TheChoice.message.tool_calls)[1]
              IN  /\ call.function.name = "search_web"
                  /\ contains(call.function.arguments,
                              "\"query\":\"" \o LastUserContent(TheRequest.messages) \o "\"")

\* The scenario of the specification: the single user message
\* "search for rust async patterns", no tools sent.
C8_Witness ==
    /\ Answered
    /\ is_none(TheRequest.tools)
    /\ Len(TheRequest.messages) = 1
    /\ TheRequest.messages[1].role = "user"
    /\ TheRequest.messages[1].content = Some("search for rust async patterns")
    /\ {"search_web", "read_file"} \subseteq DOMAIN registry.tools
    /\ TheChoice.finish_reason = "tool_calls"

\* C9: a request whose last user content holds no routing word is answered
\* with finish_reason stop, no tool_calls and a non-empty text.
C9_NoRoutingTermAnswersText ==
    (/\ Answered
     /\ HasRole(TheRequest.messages, "user")
     /\ ~HasRoutingTerm(LastUserContent(TheRequest.messages)))
        => /\ TheChoice.finish_reason = "stop"
           /\ is_none(TheChoice.message.tool_calls)
           /\ is_some(TheChoice.message.content)
           /\ Len(unwrap(TheChoice.message.content)) > 0

\* "hello there" as the last user content, with tools available and no
\* tool-result turn.
C9_Witness ==
    /\ Answered
    /\ LastUserContent(TheRequest.messages) = "hello there"
    /\ ~HasRole(TheRequest.messages, "tool")
    /\ is_some(available)
    /\ TheChoice.finish_reason = "stop"

\* The retrieval of the request that was answered failed.
RetrievalFailed == Answered /\ is_some(rag_result) /\ ~unwrap(rag_result).ok

ToolSetNames(tools) == {tools[i].function.name : i \in 1..Len(tools)}

\* C21: the handler's tool set is the caller's list, as sent, whenever the
\* caller sent one, also an empty one; it is the registry's listing when the
\* caller sent none; and with none sent and nothing listed there is no tool
\* set and no tool call.
C21_ToolSetResolution ==
    /\ Answered =>
          /\ is_some(TheRequest.tools) => available = TheRequest.tools
          /\ is_none(TheRequest.tools) =>
                /\ is_some(available)
                /\ ToolSetNames(unwrap(available)) = DOMAIN registry.tools
                /\ Len(unwrap(available)) = Cardinality(DOMAIN registry.tools)
                /\ \A i \in 1..Len(unwrap(available)) :
                      LET t == unwrap(available)[i]
                      IN  t.function.description
                             = registry.tools[t.function.name].description
          /\ is_none(available) => TheChoice.finish_reason = "stop"
    /\ resolve_tools(None, McpRegistry_new) = None
    /\ \A m \in MessagePool :
          m.role = "user" /\ is_some(m.content)
             => ~should_call_tool(resolve_tools(None, McpRegistry_new), FALSE,
                                  unwrap(m.content))

\* A request without tools was answered with the registry's four tools, the
\* plugin's among them.
C21_Witness ==
    /\ Answered
    /\ is_none(TheRequest.tools)
    /\ is_some(available)
    /\ ToolSetNames(unwrap(available)) = {"read_file", "write_file", "search_web", "lookup"}

\* A request with an empty tool list was answered with that empty list as
\* its tool set.
C21_WitnessEmptyList ==
    /\ Answered
    /\ TheRequest.tools = Some(<<>>)
    /\ available = Some(<<>>)

\* A call of retrieve_context has returned Ok.
Retrieved == is_some(ret_result) /\ unwrap(ret_result).ok

RetrievedContext == unwrap(ret_result).value

\* C22: a successful retrieve_context returns at most max_documents
\* documents, as many scores as documents, the scores never rising and none
\* under the relevance threshold, and a total_tokens that is the documents'
\* summed token cost and at most max_context_tokens.
C22_RetrievalWithinCaps ==
    Retrieved =>
        LET c == RetrievedContext
            n == Len(c.documents)
        IN  /\ n <= RagConfig_default.max_documents
            /\ Len(c.relevance_scores) = n
            /\ \A i \in 1..(n - 1) : c.relevance_scores[i] >= c.relevance_scores[i + 1]
            /\ \A i \in 1..n : c.relevance_scores[i] >= RagConfig_default.relevance_threshold
            /\ c.total_tokens = content_tokens(c.documents)
            /\ c.total_tokens <= RagConfig_default.max_context_tokens

\* The response's one message is a tool-call message: no content, one call
\* of a function, finish_reason tool_calls.
IsToolCallChoice(choice) ==
    /\ choice.message.content = None
    /\ is_some(choice.message.tool_calls)
    /\ Len(unwrap(choice.message.tool_calls)) = 1
    /\ unwrap(choice.message.tool_calls)[1].type = "function"
    /\ choice.finish_reason = "tool_calls"

\* The response's one message is a text message: content, no calls,
\* finish_reason stop.
IsTextChoice(choice) ==
    /\ is_some(choice.message.content)
    /\ unwrap(choice.message.content) /= ""
    /\ choice.message.tool_calls = None
    /\ choice.finish_reason = "stop"

\* C23: the handler returns Ok for every request, with one choice of index 0
\* whose assistant message is a tool-call message or a text message.
C23_AlwaysAValidResponse ==
    is_some(response) =>
        /\ unwrap(response).ok
        /\ Len(TheResponse.choices) = 1
        /\ TheChoice.index = 0
        /\ TheChoice.message.role = "assistant"
        /\ IsToolCallChoice(TheChoice) \/ IsTextChoice(TheChoice)

\* A tool-call response was returned.
C23_Witness ==
    /\ Answered
    /\ unwrap(response).ok
    /\ IsToolCallChoice(TheChoice)

\* A text response was returned to a request without messages.
C23_WitnessText ==
    /\ Answered
    /\ TheRequest.messages = <<>>
    /\ IsTextChoice(TheChoice)

\* The words the handler routes by: one for the search tool, two for the
\* file tool.
HasSearchTerm(text) == contains(text, "search")
HasFileTerm(text) == contains(text, "file") \/ contains(text, "read")

\* The one ToolCall of a tool-call choice.
TheCall == unwrap(TheChoice.message.tool_calls)[1]

\* C24: with a tool set and no tool message, a query with the search word is
\* answered by a call of search_web whose arguments carry the query, whether
\* or not a file word is there too; a query with a file word and no search
\* word by a call of read_file whose arguments carry a path; a query with
\* neither by no tool call.
C24_RoutingPolicy ==
    (Answered /\ is_some(available) /\ ~HasRole(TheRequest.messages, "tool")) =>
        LET q == LastUserContent(TheRequest.messages)
        IN  /\ HasSearchTerm(q) =>
                /\ IsToolCallChoice(TheChoice)
                /\ TheCall.function.name = "search_web"
                /\ contains(TheCall.function.arguments, "\"query\":\"" \o q \o "\"")
            /\ (HasFileTerm(q) /\ ~HasSearchTerm(q)) =>
                /\ IsToolCallChoice(TheChoice)
                /\ TheCall.function.name = "read_file"
                /\ contains(TheCall.function.arguments, "\"path\":")
            /\ (~HasFileTerm(q) /\ ~HasSearchTerm(q)) =>
                /\ TheChoice.message.tool_calls = None
                /\ TheChoice.finish_reason = "stop"

\* A query with the search word and a file word was routed to search_web.
C24_Witness ==
    /\ Answered
    /\ is_some(available)
    /\ ~HasRole(TheRequest.messages, "tool")
    /\ LastUserContent(TheRequest.messages) = "search the file"
    /\ TheChoice.finish_reason = "tool_calls"
    /\ TheCall.function.name = "search_web"

\* A query with a file word alone was routed to read_file.
C24_WitnessFile ==
    /\ Answered
    /\ ~HasRole(TheRequest.messages, "tool")
    /\ LastUserContent(TheRequest.messages) = "read it aloud"
    /\ TheChoice.finish_reason = "tool_calls"
    /\ TheCall.function.name = "read_file"

\* A query with neither word was answered in text though tools were there.
C24_WitnessNeither ==
    /\ Answered
    /\ is_some(available)
    /\ LastUserContent(TheRequest.messages) = "hello there"
    /\ TheChoice.finish_reason = "stop"

\* Some message before the last user message, or some non-user message,
\* carries a routing word.
RoutingTermElsewhere(msgs) ==
    \E i \in 1..Len(msgs) :
        /\ is_some(msgs[i].content)
        /\ HasRoutingTerm(unwrap(msgs[i].content))
        /\ \/ msgs[i].role /= "user"
           \/ \E j \in (i + 1)..Len(msgs) : msgs[j].role = "user"

\* C25: retrieval and the tool-call decision go by the content of the last
\* user message alone.  A non-empty one is what retrieval is called with; a
\* tool call is made only when it holds a routing word, whatever other
\* messages hold; an absent or empty one means no retrieval, the messages
\* left as sent, and no tool call.
C25_QueryIsLastUserContent ==
    Answered =>
        LET q == LastUserContent(TheRequest.messages)
        IN  /\ q /= "" =>
                /\ rag_calls = 1
                /\ is_some(rag_result)
                /\ unwrap(rag_result).ok
                /\ unwrap(rag_result).value.query = q
            /\ q = "" =>
                /\ rag_calls = 0
                /\ rag_result = None
                /\ messages = TheRequest.messages
                /\ TheChoice.finish_reason = "stop"
            /\ TheChoice.finish_reason = "tool_calls" => HasRoutingTerm(q)
            /\ (TheChoice.finish_reason = "tool_calls" /\ HasSearchTerm(q))
                  => contains(TheCall.function.arguments, "\"query\":\"" \o q \o "\"")

\* A search request followed by a user message without routing words, with
\* tools at hand, was answered in text and retrieved for the later message.
C25_Witness ==
    /\ Answered
    /\ is_some(available)
    /\ ~HasRole(TheRequest.messages, "tool")
    /\ Len(TheRequest.messages) >= 2
    /\ TheRequest.messages[1].role = "user"
    /\ TheRequest.messages[1].content = Some("search for rust async patterns")
    /\ LastUserContent(TheRequest.messages) = "hello there"
    /\ rag_calls = 1
    /\ TheChoice.finish_reason = "stop"

\* The last user message has no content while an earlier one and a system
\* message carry routing words: no retrieval, no tool call.
C25_WitnessAbsent ==
    /\ Answered
    /\ is_some(available)
    /\ RoutingTermElsewhere(TheRequest.messages)
    /\ Len(TheRequest.messages) = 3
    /\ TheRequest.messages[1].role = "user"
    /\ TheRequest.messages[2].role = "system"
    /\ TheRequest.messages[3].role = "user"
    /\ TheRequest.messages[3].content = None
    /\ rag_calls = 0
    /\ TheChoice.finish_reason = "stop"

\* C26: the function a response calls is a tool of the request's tool set;
\* a caller's empty list, or one without search_web and read_file, gets no
\* tool call.
C26_CalledToolIsInToolSet ==
    (Answered /\ TheChoice.finish_reason = "tool_calls") =>
        /\ is_some(available)
        /\ TheCall.function.name \in ToolSetNames(unwrap(available))

\* C29: a request with stream = true is answered with an error, not with a
\* completion.
C29_StreamIsRejected ==
    (Answered /\ TheRequest.stream = Some(TRUE)) => ~unwrap(response).ok

\* The values of tool_choice: absent, the three modes, a pinned function.
ToolChoices ==
    {None}
    \cup {Some(ToolChoice_Auto(mode)) : mode \in {"auto", "none", "required"}}
    \cup {Some(ToolChoice_Function(name)) : name \in {"get_weather", "read_file"}}

\* What the handler returns for the request with its tool_choice replaced,
\* all else (registry, clock) as it was.
ResultWithToolChoice(req, reg, now, tool_choice) ==
    chat_completions_handler([req EXCEPT !.tool_choice = tool_choice], reg, now).result.value

\* C30: the answer does not depend on tool_choice.  Whenever a request has
\* been answered, the same request with any other tool_choice gets the same
\* choices (message and finish_reason) and the same usage.  The registry is
\* read as the handler left it: registering the defaults once more leaves it
\* as it is, so the compared run lists the tools the answered one listed.
C30_ToolChoiceIsAdvisory ==
    Answered =>
        /\ initialize_default_mcp_servers(registry) = registry
        /\ \A tool_choice \in ToolChoices :
              LET other == ResultWithToolChoice(TheRequest, registry,
                                                TheResponse.created, tool_choice)
              IN  /\ other.choices = TheResponse.choices
                  /\ other.usage = TheResponse.usage

\* A request with tool_choice "none" was answered with a tool call.
C30_Witness ==
    /\ Answered
    /\ TheRequest.tool_choice = Some(ToolChoice_Auto("none"))
    /\ TheChoice.finish_reason = "tool_calls"

\* A request that pins get_weather was answered with a call of search_web.
C30_WitnessPinned ==
    /\ Answered
    /\ TheRequest.tool_choice = Some(ToolChoice_Function("get_weather"))
    /\ TheChoice.finish_reason = "tool_calls"
    /\ TheCall.function.name = "search_web"

-----------------------------------------------------------------------------
(* Properties of enhance_messages_with_context                             *)

Enhanced == is_some(enh_context) /\ is_some(enh_result)

\* How many messages stand before the first message of role user (all of
\* them when there is none).
RECURSIVE LeadingNonUser(_)
LeadingNonUser(msgs) ==
    IF msgs = <<>> \/ Head(msgs).role = "user" THEN 0
    ELSE 1 + LeadingNonUser(Tail(msgs))

\* C3: with at least one document, exactly one message is added, a system
\* message tagged rag_context, at the index of the first user message (at
\* the end when there is none); every original message is kept as it was
\* and in its order, those before the first user message still before the
\* added one.
C3_ContextInsertedBeforeFirstUser ==
    (Enhanced /\ unwrap(enh_context).documents /= <<>>)
        => LET M == enh_messages
               R == unwrap(enh_result)
               i == LeadingNonUser(M)
           IN  /\ Len(R) = Len(M) + 1
               /\ R[i + 1].role = "system"
               /\ R[i + 1].name = Some("rag_context")
               /\ is_some(R[i + 1].content)
               /\ \A j \in 1..i : R[j] = M[j]
               /\ \A j \in (i + 1)..Len(M) : R[j + 1] = M[j]

\* A list with a system message, then a user message, then more: the
\* context message lands strictly inside it.
C3_Witness ==
    /\ Enhanced
    /\ Len(unwrap(enh_context).documents) >= 1
    /\ Len(enh_messages) = 3
    /\ enh_messages[1].role = "system"
    /\ enh_messages[2].role = "user"
    /\ enh_messages[3].role = "user"
    /\ unwrap(enh_result)[2].name = Some("rag_context")

\* C4: with no document in the context the message list comes back as it
\* went in.
C4_EmptyContextLeavesMessages ==
    (Enhanced /\ unwrap(enh_context).documents = <<>>)
        => unwrap(enh_result) = enh_messages

\* A non-empty list with a user message, enhanced with an empty context.
C4_Witness ==
    /\ Enhanced
    /\ unwrap(enh_context).documents = <<>>
    /\ Len(enh_messages) >= 2
    /\ HasRole(enh_messages, "user")
    /\ unwrap(enh_result) = enh_messages

-----------------------------------------------------------------------------
(* Properties of the registry                                              *)

\* The set of tools get_available_tools returns.
ListedTools(reg) ==
    LET listed == get_available_tools(reg) IN {listed[i] : i \in 1..Len(listed)}

\* The names of the tools a server carries.
CarriedNames(server) == {server.tools[i].name : i \in 1..Len(server.tools)}

\* The registry after register_server(server) and then
\* unregister_server(server.name).
RoundTrip(reg, server) == unregister_server(register_server(reg, server), server.name)

IndexedFrom(reg, server_name) ==
    {t \in DOMAIN reg.tools : reg.tools[t].server = server_name}

\* C15: in every registry state, unregister_server(n) leaves no server
\* named n and no indexed tool contributed by n; and when no server named n
\* is registered it leaves servers and index as they were.
C15_UnregisterRemovesAllOfGroup ==
    \A n \in ServerNames :
        LET after == unregister_server(registry, n)
        IN  /\ n \notin DOMAIN after.servers
            /\ IndexedFrom(after, n) = {}
            /\ n \notin DOMAIN registry.servers => after = registry

\* A server that carries the same tool name twice, with two descriptions.
twice_server ==
    McpServer("filesystem", "File system operations",
              <<McpTool("read_file", "Read contents of a file", "filesystem"),
                McpTool("read_file", "Read a file again", "filesystem")>>)

\* The last tool of the server that carries the name.
LastCarried(server, name) ==
    LET at == {i \in 1..Len(server.tools) : server.tools[i].name = name}
    IN  server.tools[CHOOSE i \in at : \A j \in at : j <= i]

\* C16: register_server(G) always yields a registry; in it the server stored
\* under G.name is G, every tool name G carries resolves to G's (last) tool
\* of that name, whoever had indexed the name before, and the other servers
\* and the other names of the index are as they were.
C16_RegisterStoresAndIndexes ==
    \A G \in McpServers \cup {twice_server} :
        LET after == register_server(registry, G)
        IN  /\ DOMAIN after.servers = DOMAIN registry.servers \cup {G.name}
            /\ after.servers[G.name] = G
            /\ \A n \in DOMAIN registry.servers \ {G.name} :
                   after.servers[n] = registry.servers[n]
            /\ DOMAIN after.tools = DOMAIN registry.tools \cup CarriedNames(G)
            /\ \A t \in CarriedNames(G) : after.tools[t] = LastCarried(G, t)
            /\ \A t \in DOMAIN registry.tools \ CarriedNames(G) :
                   after.tools[t] = registry.tools[t]

\* Both servers are registered and carry search_web; the index resolves it
\* to web_search's tool, and filesystem has been registered before with
\* another tool list.
C16_Witness ==
    /\ DOMAIN registry.servers = {"filesystem", "web_search"}
    /\ "search_web" \in CarriedNames(registry.servers["filesystem"])
    /\ "search_web" \in CarriedNames(registry.servers["web_search"])
    /\ registry.tools["search_web"].server = "web_search"
    /\ "write_file" \in DOMAIN registry.tools
    /\ "write_file" \notin CarriedNames(registry.servers["filesystem"])
    /\ "write_file" \notin CarriedNames(registry.servers["web_search"])

\* C17: execute_tool_call returns an error exactly when the called name is
\* not in the tool index, the error naming the tool; otherwise it returns a
\* text that names the server the indexed tool belongs to; and it leaves
\* servers and index as they were.
C17_ExecuteFindsToolOrFails ==
    [][(is_some(exec_result') /\ exec_result' /= exec_result) =>
          LET call == unwrap(exec_result').tool_call
              result == unwrap(exec_result').result
              tool_name == call.function.name
          IN  /\ ~result.ok <=> tool_name \notin DOMAIN registry.tools
              /\ ~result.ok =>
                     result.value = "Tool '" \o tool_name \o "' not found in MCP registry"
              /\ result.ok =>
                     /\ contains(result.value,
                                 "MCP server '" \o registry.tools[tool_name].server \o "'")
                     /\ contains(result.value, "Tool '" \o tool_name \o "' executed")
              /\ registry' = registry]_vars

\* read_file was executed while the index held it for a server that is no
\* longer registered, and the result names that server.
C17_Witness ==
    /\ is_some(exec_result)
    /\ unwrap(exec_result).tool_call.function.name = "read_file"
    /\ unwrap(exec_result).result.ok
    /\ "read_file" \in DOMAIN registry.tools
    /\ registry.tools["read_file"].server = "filesystem"
    /\ "filesystem" \notin DOMAIN registry.servers
    /\ contains(unwrap(exec_result).result.value, "MCP server 'filesystem'")

\* lookup, a name that is never indexed, was executed and not found.
C17_WitnessNotFound ==
    /\ is_some(exec_result)
    /\ unwrap(exec_result).tool_call.function.name = "lookup"
    /\ unwrap(exec_result).result = Err("Tool 'lookup' not found in MCP registry")

-----------------------------------------------------------------------------
(* Properties of the AIProxyServer                                         *)

\* start() got as far as the health check and no liveness request of it was
\* answered.
NeverAnswered ==
    /\ health_log /= <<>>
    /\ \A i \in 1..Len(health_log) : health_log[i] = "error"

StartReturned == pc = "idle" /\ is_some(start_result)

\* C10: when no liveness request is answered, start() makes exactly 5 of
\* them and no more, returns an error, and is_running is false after it;
\* and start() does return.
C10_FiveAttemptsThenError ==
    /\ [](NeverAnswered => Len(health_log) <= 5)
    /\ []((StartReturned /\ NeverAnswered)
            => /\ Len(health_log) = 5
               /\ ~unwrap(start_result).ok
               /\ ~is_running)
    /\ (pc = "settling") ~> (pc = "idle")

\* start() has returned after five unanswered liveness requests.
C10_Witness ==
    /\ StartReturned
    /\ health_log = <<"error", "error", "error", "error", "error">>
    /\ ~unwrap(start_result).ok
    /\ ~is_running

\* The manager's state as the fields of AIProxyServer show it: Starting
\* while start() runs, Running with is_running set, Failed when a handle is
\* kept without is_running (start() returned the health-check error and
\* stop() has not run since), Stopped otherwise.  stop() has no await, so
\* Stopping is never seen from outside it.
ManagerState ==
    IF pc /= "idle" THEN "Starting"
    ELSE IF is_running THEN "Running"
    ELSE IF is_some(server_handle) THEN "Failed"
    ELSE "Stopped"

\* C11: Failed is terminal: once a start() has exhausted its health-check
\* budget, the manager is never Running again.
C11_FailedIsTerminal == exhausted => ~is_running

\* Some liveness request of the latest verify_server_health came back with a
\* success status.
HasSuccess == \E i \in 1..Len(health_log) : health_log[i] = "success"

\* verify_server_health ran to its end: it stopped at its first success, or
\* made all 5 requests without one.
VerificationCompleted ==
    /\ Len(health_log) \in 1..5
    /\ \A i \in 1..(Len(health_log) - 1) : health_log[i] /= "success"
    /\ health_log[Len(health_log)] = "success" \/ Len(health_log) = 5

\* The latest start() returned before it bound its listener.
BindFailed == start_result = Some(Err("bind"))

\* What start() returned agrees with what its health check saw, and the
\* running flag with what it returned.
ReturnAgreesWithHealth ==
    StartReturned =>
        /\ unwrap(start_result).ok <=> (~BindFailed /\ HasSuccess)
        /\ unwrap(start_result).ok => unwrap(start_result).value = port
        /\ (unwrap(start_result).ok /\ ~stop_since) => is_running

\* C12 as stated: every start() returns only after health verification has
\* completed; it returns Ok(port) and sets the running flag exactly when a
\* liveness attempt among the at most 5 succeeded; and is_running implies
\* that the most recent start() observed a success and that stop() has not
\* been called since.
C12_RunningIffLastStartHealthy ==
    /\ StartReturned => (~BindFailed /\ VerificationCompleted)
    /\ ReturnAgreesWithHealth
    /\ is_running => (~BindFailed /\ HasSuccess /\ ~stop_since)

\* C12, amended: a start() that bound its listener returns only after health
\* verification has completed; start() returns Ok(port) and sets the running
\* flag exactly when a liveness attempt among the at most 5 succeeded; and
\* is_running implies that the latest health verification observed a success
\* and that stop() has not been called since.
C12_RunningIffLastVerificationHealthy ==
    /\ (StartReturned /\ ~BindFailed) => VerificationCompleted
    /\ ReturnAgreesWithHealth
    /\ is_running => (HasSuccess /\ VerificationCompleted /\ ~stop_since)

\* start() has returned Ok after two failed liveness requests and a
\* successful one, and the server is running.
C12_Witness ==
    /\ StartReturned
    /\ health_log = <<"error", "status_error", "success">>
    /\ start_result = Some(Ok(port))
    /\ is_running

\* C14: whatever state stop() is called in, after it the serving task is
\* cancelled, no handle is kept and the manager reports not running; and
\* stop() on a stopped manager changes nothing of the manager.
C14_StopCancelsAndClears ==
    /\ [](stop_since => (task /= "serving" /\ is_none(server_handle) /\ ~is_running))
    /\ [][(Stop /\ ManagerState = "Stopped")
            => UNCHANGED <<port, is_running, server_handle, task, pc>>]_vars

\* stop() has been called on a running server: its task is aborted.
C14_Witness ==
    /\ stop_since
    /\ task = "aborted"
    /\ is_none(server_handle)
    /\ ~is_running
    /\ start_result = Some(Ok(port))

-----------------------------------------------------------------------------
(* Properties of the host's commands                                       *)

\* The start() of the background task has returned Ok.
StartSucceeded == pc = "idle" /\ is_some(start_result) /\ unwrap(start_result).ok

\* C13: at every moment of the background task, is_ai_proxy_running returns
\* true and get_ai_proxy_url returns a URL only when start() has returned
\* Ok, and the URL is that of the running server; before that, and after a
\* failed start, they return false and the error.
C13_CommandsSeeOnlyStartedServer ==
    is_some(query_result) =>
        LET q == unwrap(query_result)
        IN  IF q.command = "is_ai_proxy_running"
            THEN /\ q.result.ok
                 /\ q.result.value => (StartSucceeded /\ is_running)
                 /\ ~StartSucceeded => q.result = Ok(FALSE)
            ELSE /\ q.result.ok =>
                     /\ StartSucceeded /\ is_running
                     /\ q.result.value = "http://127.0.0.1:8080"
                 /\ ~StartSucceeded => q.result = Err("AI Proxy server not initialized")

\* is_ai_proxy_running has answered true once the server was published.
C13_Witness ==
    /\ StartSucceeded
    /\ is_some(ai_server_state)
    /\ is_some(query_result)
    /\ unwrap(query_result).command = "is_ai_proxy_running"
    /\ unwrap(query_result).result.value

\* While start() was verifying the server's health, get_ai_proxy_url was
\* answered with the error.
C13_WitnessDuringStart ==
    /\ pc = "verifying"
    /\ is_some(query_result)
    /\ unwrap(query_result).command = "get_ai_proxy_url"
    /\ ~unwrap(query_result).result.ok

-----------------------------------------------------------------------------
(* Properties of the singletons under parallel requests                    *)

\* C18: no registry access of a handler (a write of its registrations, or
\* its listing) runs while a register_server of another handler is partly
\* applied.
C18_RegistryAccessesExclusive == ~overlap

\* C19: the registry and the retrieval service are each constructed once,
\* and the default servers are registered once, however many requests come.
C19_SingletonsInitialisedOnce ==
    /\ constructed.mcp <= 1
    /\ constructed.rag <= 1
    /\ default_inits <= 1

\* C27: the index and the server table agree.  Every indexed tool names a
\* registered server that carries a tool of that name; every tool carried
\* by a registered server is indexed; no tool name is carried by two
\* registered servers.
C27_IndexAgreesWithServers ==
    /\ \A t \in DOMAIN registry.tools :
          /\ registry.tools[t].server \in DOMAIN registry.servers
          /\ t \in CarriedNames(registry.servers[registry.tools[t].server])
    /\ \A s \in DOMAIN registry.servers :
          CarriedNames(registry.servers[s]) \subseteq DOMAIN registry.tools
    /\ \A s1, s2 \in DOMAIN registry.servers :
          s1 /= s2 =>
             CarriedNames(registry.servers[s1]) \cap CarriedNames(registry.servers[s2]) = {}

\* The latest start() returned the health-check error and neither stop()
\* nor another start() has run since.
HealthCheckFailed ==
    /\ StartReturned
    /\ ~unwrap(start_result).ok
    /\ unwrap(start_result).value = "Failed to start AI Proxy server"
    /\ ~stop_since

\* C28: once start() has returned the health-check error, the task it
\* spawned is aborted and the server keeps no handle to it.
C28_FailedStartLeavesNoTask ==
    HealthCheckFailed => (task /= "serving" /\ server_handle = None)

====
